---- MODULE Spec2Model ----
(***************************************************************************)
(* Kisan Mitra: the intent router, the agent bridge, the six agents and    *)
(* the web / voice front ends that dispatch to them.                       *)
(*                                                                         *)
(* Python values are tagged records [t, v].  A Python str is a sequence of *)
(* lexemes: the characters that matter to the router's clean-up and to the *)
(* JSON grammar are single characters (backtick, quote, braces, brackets,  *)
(* colon, comma, blank, newline, digits); every other lexeme is a word of  *)
(* ordinary characters that holds none of them.                            *)
(***************************************************************************)
EXTENDS Integers, Sequences, FiniteSets, TLC

VARIABLES
    pc,          \* "idle" | "done": whether an operation has just been carried out
    call,        \* the operation carried out last and its arguments
    registry,    \* AgentBridge._agents : name -> agent instance
    router_out,  \* what route_query_to_agent did inside that operation
    agent_out,   \* the agent operation that was invoked inside it, and what it did
    out,         \* what the operation returned or raised, and every call it made
    uploads,     \* the files of app.config['UPLOAD_FOLDER'] : file name -> bytes
    inflight     \* the requests to /ask being handled at once, each at its step

vars == <<pc, call, registry, router_out, agent_out, out, uploads, inflight>>

-----------------------------------------------------------------------------
(* Python values *)

PyNone == [t |-> "None", v |-> <<>>]
PyStr(s) == [t |-> "str", v |-> s]
PyInt(digits) == [t |-> "int", v |-> digits]
PyList(xs) == [t |-> "list", v |-> xs]
PyDict(f) == [t |-> "dict", v |-> f]
EmptyDict == PyDict(<<>>)

W(word) == PyStr(<<word>>)

\* `not x`
Falsy(x) == x.t = "None" \/ x.v = <<>>

IsStr(x) == x.t = "str"
IsDict(x) == x.t = "dict"

\* x == "literal"
StrEq(x, s) == IsStr(x) /\ x.v = s

\* d.get(key, default) on a dict
DictGet(d, key, default) == IF key \in DOMAIN d.v THEN d.v[key] ELSE default

\* `key in d` on a dict
HasKey(d, key) == key \in DOMAIN d.v

-----------------------------------------------------------------------------
(* str.strip, str.replace, str.title *)

Quote == "\""
\* the backtick character (the lexer of TLA+ does not accept it in a string)
Backtick == "BACKTICK"
Whitespace == {" ", "\n"}
Digits == {"1", "2", "4", "8"}

RECURSIVE LStrip(_)
LStrip(s) == IF s # <<>> /\ Head(s) \in Whitespace THEN LStrip(Tail(s)) ELSE s

RECURSIVE RStrip(_)
RStrip(s) ==
    IF s # <<>> /\ s[Len(s)] \in Whitespace THEN RStrip(SubSeq(s, 1, Len(s) - 1)) ELSE s

Strip(s) == RStrip(LStrip(s))

StartsWith(s, pat) == Len(s) >= Len(pat) /\ SubSeq(s, 1, Len(pat)) = pat

\* s.replace(pat, ""): every non-overlapping occurrence, left to right
RECURSIVE Remove(_, _)
Remove(s, pat) ==
    IF Len(s) < Len(pat) THEN s
    ELSE IF StartsWith(s, pat) THEN Remove(SubSeq(s, Len(pat) + 1, Len(s)), pat)
    ELSE <<Head(s)>> \o Remove(Tail(s), pat)

Contains(s, pat) == \E i \in 1..(Len(s) - Len(pat) + 1) : SubSeq(s, i, i + Len(pat) - 1) = pat

FenceJson == <<Backtick, Backtick, Backtick, "json">>
Fence == <<Backtick, Backtick, Backtick>>

TitleWord(w) ==
    CASE w = "light" -> "Light"
      [] w = "rain" -> "Rain"
      [] w = "clear" -> "Clear"
      [] w = "sky" -> "Sky"
      [] OTHER -> w

Title(s) == [i \in 1..Len(s) |-> TitleWord(s[i])]

-----------------------------------------------------------------------------
(* json.loads *)

ParseFail == [ok |-> FALSE, val |-> PyNone, pos |-> 0]
Parsed(x, next) == [ok |-> TRUE, val |-> x, pos |-> next]

RECURSIVE SkipWs(_, _)
SkipWs(s, i) == IF i <= Len(s) /\ s[i] \in Whitespace THEN SkipWs(s, i + 1) ELSE i

\* the index of the quote that closes a string whose body starts at i, 0 when
\* the string is unterminated or holds a raw control character
RECURSIVE StringEnd(_, _)
StringEnd(s, i) ==
    IF i > Len(s) THEN 0
    ELSE IF s[i] = Quote THEN i
    ELSE IF s[i] = "\n" THEN 0
    ELSE StringEnd(s, i + 1)

RECURSIVE NumberEnd(_, _)
NumberEnd(s, i) == IF i <= Len(s) /\ s[i] \in Digits THEN NumberEnd(s, i + 1) ELSE i

ScanString(s, i) ==
    LET e == StringEnd(s, i + 1)
    IN  IF e = 0 THEN ParseFail ELSE Parsed(PyStr(SubSeq(s, i + 1, e - 1)), e + 1)

RECURSIVE ScanOnce(_, _)
RECURSIVE ScanMembers(_, _, _)
RECURSIVE ScanElements(_, _, _)

\* the members of an object from the key at i on; d holds the pairs read so far
ScanMembers(s, i, d) ==
    IF i > Len(s) \/ s[i] # Quote THEN ParseFail
    ELSE LET k == ScanString(s, i)
         IN  IF ~k.ok THEN ParseFail
             ELSE LET c == SkipWs(s, k.pos)
                  IN  IF c > Len(s) \/ s[c] # ":" THEN ParseFail
                      ELSE LET x == ScanOnce(s, SkipWs(s, c + 1))
                           IN  IF ~x.ok THEN ParseFail
                               ELSE LET d2 == (k.val.v :> x.val) @@ d
                                        n == SkipWs(s, x.pos)
                                    IN  IF n > Len(s) THEN ParseFail
                                        ELSE IF s[n] = "}" THEN Parsed(PyDict(d2), n + 1)
                                        ELSE IF s[n] = ","
                                             THEN ScanMembers(s, SkipWs(s, n + 1), d2)
                                        ELSE ParseFail

\* the elements of an array from the value at i on
ScanElements(s, i, xs) ==
    LET x == ScanOnce(s, i)
    IN  IF ~x.ok THEN ParseFail
        ELSE LET n == SkipWs(s, x.pos)
             IN  IF n > Len(s) THEN ParseFail
                 ELSE IF s[n] = "]" THEN Parsed(PyList(Append(xs, x.val)), n + 1)
                 ELSE IF s[n] = ","
                      THEN ScanElements(s, SkipWs(s, n + 1), Append(xs, x.val))
                 ELSE ParseFail

\* one JSON value starting at i
ScanOnce(s, i) ==
    IF i > Len(s) THEN ParseFail
    ELSE IF s[i] = Quote THEN ScanString(s, i)
    ELSE IF s[i] = "{"
         THEN LET j == SkipWs(s, i + 1)
              IN  IF j <= Len(s) /\ s[j] = "}" THEN Parsed(EmptyDict, j + 1)
                  ELSE ScanMembers(s, j, <<>>)
    ELSE IF s[i] = "["
         THEN LET j == SkipWs(s, i + 1)
              IN  IF j <= Len(s) /\ s[j] = "]" THEN Parsed(PyList(<<>>), j + 1)
                  ELSE ScanElements(s, j, <<>>)
    ELSE IF s[i] \in Digits THEN Parsed(PyInt(SubSeq(s, i, NumberEnd(s, i) - 1)), NumberEnd(s, i))
    ELSE IF s[i] = "null" THEN Parsed(PyNone, i + 1)
    ELSE ParseFail

\* json.loads(s): [ok, val]; ok = FALSE stands for json.JSONDecodeError
JsonLoads(s) ==
    LET x == ScanOnce(s, SkipWs(s, 1))
    IN  IF x.ok /\ SkipWs(s, x.pos) = Len(s) + 1 THEN x ELSE ParseFail

-----------------------------------------------------------------------------
(* json.dumps, str() inside an f-string *)

SetToSeq(S) == CHOOSE q \in [1..Cardinality(S) -> S] : {q[i] : i \in 1..Cardinality(S)} = S

RECURSIVE Spaces(_)
Spaces(n) == IF n <= 0 THEN <<>> ELSE <<" ">> \o Spaces(n - 1)

\* the break before an item at nesting level: nothing without indent, else a
\* newline and indent * level blanks
Break(indent, level) == IF indent = 0 THEN <<>> ELSE <<"\n">> \o Spaces(indent * level)

ItemSep(indent) == IF indent = 0 THEN <<",", " ">> ELSE <<",">>

RECURSIVE JsonDumps(_, _, _)
RECURSIVE DumpItems(_, _, _, _)
RECURSIVE DumpPairs(_, _, _, _)

DumpItems(xs, i, indent, level) ==
    IF i > Len(xs) THEN <<>>
    ELSE (IF i > 1 THEN ItemSep(indent) ELSE <<>>) \o Break(indent, level)
         \o JsonDumps(xs[i], indent, level) \o DumpItems(xs, i + 1, indent, level)

DumpPairs(d, keys, indent, level) ==
    IF keys = <<>> THEN <<>>
    ELSE Break(indent, level) \o <<Quote>> \o Head(keys) \o <<Quote, ":", " ">>
         \o JsonDumps(d[Head(keys)], indent, level)
         \o (IF Len(keys) > 1 THEN ItemSep(indent) ELSE <<>>)
         \o DumpPairs(d, Tail(keys), indent, level)

\* json.dumps(x, indent=indent) at nesting level; indent = 0 stands for no indent
JsonDumps(x, indent, level) ==
    CASE x.t = "str" -> <<Quote>> \o x.v \o <<Quote>>
      [] x.t = "int" -> x.v
      [] x.t = "None" -> <<"null">>
      [] x.t = "list" ->
            IF x.v = <<>> THEN <<"[", "]">>
            ELSE <<"[">> \o DumpItems(x.v, 1, indent, level + 1) \o Break(indent, level) \o <<"]">>
      [] x.t = "dict" ->
            IF DOMAIN x.v = {} THEN <<"{", "}">>
            ELSE <<"{">> \o DumpPairs(x.v, SetToSeq(DOMAIN x.v), indent, level + 1)
                 \o Break(indent, level) \o <<"}">>

\* str(x), as an f-string renders {x}
Format(x) ==
    CASE x.t = "str" -> x.v
      [] x.t = "int" -> x.v
      [] x.t = "None" -> <<"None">>
      [] OTHER -> <<"repr(">> \o JsonDumps(x, 0, 0) \o <<")">>

-----------------------------------------------------------------------------
(* outcomes of a call: the value returned or the exception raised, and the
   calls it made, in order *)

NoInst == [cls |-> "none", id |-> 0]

\* an exception, where a value is expected
PyExc(e) == [t |-> "exception", v |-> <<e>>]

\* one call: on which instance, with which arguments, and what came back
Ev(api, inst, args, res) == [api |-> api, inst |-> inst, args |-> args, res |-> res]

Result(o) == IF o.exc = "none" THEN o.ret ELSE PyExc(o.exc)

Ret(x, ev) == [ret |-> x, exc |-> "none", events |-> ev]
Raise(e, ev) == [ret |-> PyNone, exc |-> e, events |-> ev]
NotCalled == [ret |-> PyNone, exc |-> "not called", events |-> <<>>]

Count(ev, api) == Cardinality({i \in 1..Len(ev) : ev[i].api = api})

\* x[key] on a Python value
Item(x, key) ==
    IF IsDict(x) THEN (IF HasKey(x, key) THEN Ret(x.v[key], <<>>) ELSE Raise("KeyError", <<>>))
    ELSE Raise("TypeError", <<>>)

\* x[0] on a Python value
First(x) ==
    IF x.t = "list" THEN (IF x.v # <<>> THEN Ret(x.v[1], <<>>) ELSE Raise("IndexError", <<>>))
    ELSE IF IsDict(x) THEN Raise("KeyError", <<>>)
    ELSE IF IsStr(x) THEN (IF x.v # <<>> THEN Ret(PyStr(<<x.v[1]>>), <<>>) ELSE Raise("IndexError", <<>>))
    ELSE Raise("TypeError", <<>>)

\* x.get(key, default): only a dict has .get
Get(x, key, default) ==
    IF IsDict(x) THEN Ret(DictGet(x, key, default), <<>>) ELSE Raise("AttributeError", <<>>)

-----------------------------------------------------------------------------
(* api_helpers.py: the external clients.  The second argument of each is
   what the outside world does to that one call. *)

GeminiFailures == {"nokey", "http", "nocandidates", "unexpected"}

\* call_gemini_api(prompt, image_base64)
call_gemini_api(prompt, image_base64, g) ==
    LET r == CASE g.kind = "nokey" ->
                    W("Error: GOOGLE_API_KEY not found in .env file. Please get a key from Google AI Studio.")
              [] g.kind = "ok" -> PyStr(g.text)
              [] g.kind = "nocandidates" ->
                    W("The AI model responded, but the content may have been blocked for safety reasons.")
              [] g.kind = "http" ->
                    W("API Request Error: Could not connect to Google AI. Please check your API key and ensure the API is enabled in your Google Cloud project.")
              [] OTHER -> W("An unexpected error occurred during the API call.")
    IN  Ret(r, <<Ev("call_gemini_api", NoInst, <<prompt, image_base64>>, r)>>)

\* get_market_data_from_gov_api(commodity, market)
get_market_data_from_gov_api(commodity, market, m) ==
    LET r == CASE m.kind = "nokey" -> PyDict((<<"error">> :> W("DATA_GOV_IN_API_KEY not found.")))
              [] m.kind = "http" -> PyDict((<<"error">> :> W("str(e)")))
              [] OTHER -> m.data
    IN  Ret(r, <<Ev("get_market_data_from_gov_api", NoInst, <<commodity, market>>, r)>>)

\* get_weather_from_api(city)
get_weather_from_api(city, w) ==
    LET r == CASE w.kind = "nokey" -> PyDict((<<"error">> :> W("OPENWEATHER_API_KEY not found.")))
              [] w.kind = "http" -> PyDict((<<"error">> :> W("str(e)")))
              [] OTHER -> w.data
    IN  Ret(r, <<Ev("get_weather_from_api", NoInst, <<city>>, r)>>)

\* base64.b64encode(bytes).decode('utf-8')
B64Alphabet ==
    <<"A", "B", "C", "D", "E", "F", "G", "H", "I", "J", "K", "L", "M", "N", "O", "P",
       "Q", "R", "S", "T", "U", "V", "W", "X", "Y", "Z", "a", "b", "c", "d", "e", "f",
       "g", "h", "i", "j", "k", "l", "m", "n", "o", "p", "q", "r", "s", "t", "u", "v",
       "w", "x", "y", "z", "0", "1", "2", "3", "4", "5", "6", "7", "8", "9", "+", "/">>

B64Char(n) == B64Alphabet[n + 1]

RECURSIVE b64encode(_)
b64encode(bytes) ==
    IF bytes = <<>> THEN <<>>
    ELSE IF Len(bytes) = 1
         THEN <<B64Char(bytes[1] \div 4), B64Char((bytes[1] % 4) * 16), "=", "=">>
    ELSE IF Len(bytes) = 2
         THEN <<B64Char(bytes[1] \div 4),
                B64Char((bytes[1] % 4) * 16 + bytes[2] \div 16),
                B64Char((bytes[2] % 16) * 4), "=">>
    ELSE <<B64Char(bytes[1] \div 4),
           B64Char((bytes[1] % 4) * 16 + bytes[2] \div 16),
           B64Char((bytes[2] % 16) * 4 + bytes[3] \div 64),
           B64Char(bytes[3] % 64)>> \o b64encode(SubSeq(bytes, 4, Len(bytes)))

\* encode_image_to_base64(image_path); f is what open() and read() do
encode_image_to_base64(image_path, f) ==
    LET o == IF f.open = "ok" THEN Ret(PyStr(b64encode(f.bytes)), <<>>)
             ELSE IF f.open = "FileNotFoundError" THEN Ret(PyNone, <<>>)
             ELSE Raise(f.open, <<>>)
    IN  [o EXCEPT !.events = <<Ev("encode_image_to_base64", NoInst, <<image_path>>, Result(o))>>]

-----------------------------------------------------------------------------
(* bridge.py *)

\* the outcome o of a call, with the call itself put in front of the calls
\* it made
Recorded(api, inst, args, o) ==
    [o EXCEPT !.events = <<Ev(api, inst, args, Result(o))>> \o o.events]

\* hasattr(target_agent, 'handle_request'): of the six classes only
\* WeatherAgent defines it
HasHandler(agent) == agent.cls = "WeatherAgent"

\* AgentBridge.__init__
BridgeInit == <<>>

\* register_agent as self._agents.setdefault(name, agent_instance)
register_agent_SetDefault(reg, name, agent_instance) == reg @@ (name :> agent_instance)

\* AgentBridge.register_agent(name, agent_instance): the registry afterwards
register_agent(reg, name, agent_instance) == (name :> agent_instance) @@ reg

\* WeatherAgent.handle_request from `desc = ...` on
Forecast(city, weather_data) ==
    LET weather == Item(weather_data.ret, <<"weather">>)
        first == First(weather.ret)
        desc == Item(first.ret, <<"description">>)
        main == Item(weather_data.ret, <<"main">>)
        temp == Item(main.ret, <<"temp">>)
        ev == weather_data.events
    IN  IF HasKey(weather_data.ret, <<"error">>) THEN Ret(W("Weather data unavailable."), ev)
        ELSE IF weather.exc # "none" THEN Raise(weather.exc, ev)
        ELSE IF first.exc # "none" THEN Raise(first.exc, ev)
        ELSE IF desc.exc # "none" THEN Raise(desc.exc, ev)
        ELSE IF main.exc # "none" THEN Raise(main.exc, ev)
        ELSE IF temp.exc # "none" THEN Raise(temp.exc, ev)
        ELSE IF ~IsStr(desc.ret) THEN Raise("AttributeError", ev)
        ELSE Ret(PyStr(<<"Forecast for ">> \o Format(city) \o <<": ">> \o Title(desc.ret.v)
                       \o <<" with temperatures around ">> \o Format(temp.ret)
                       \o <<"°C.">>), ev)

\* handle_request fetching the weather before it looks at city
SimpleForecast_FetchFirst(city, w) ==
    IF city.exc # "none" THEN Raise(city.exc, <<>>)
    ELSE IF Falsy(city.ret)
         THEN Ret(W("No city provided."), get_weather_from_api(city.ret, w).events)
    ELSE Forecast(city.ret, get_weather_from_api(city.ret, w))

\* WeatherAgent.handle_request from `if not city` on; city is data.get("city")
SimpleForecast(city, w) ==
    IF city.exc # "none" THEN Raise(city.exc, <<>>)
    ELSE IF Falsy(city.ret) THEN Ret(W("No city provided."), <<>>)
    ELSE Forecast(city.ret, get_weather_from_api(city.ret, w))

\* the body of WeatherAgent.handle_request(task, data)
HandleTask(task, data, w) ==
    IF StrEq(task, <<"get_simple_forecast">>)
    THEN SimpleForecast(Get(data, <<"city">>, PyNone), w)
    ELSE Ret(W("Unknown task."), <<>>)

\* WeatherAgent.handle_request(task, data), as a recorded call on self
handle_request(self, task, data, w) ==
    Recorded("handle_request", self, <<task, data>>, HandleTask(task, data, w))

\* AgentBridge.request that calls handle_request without hasattr
Lookup_NoHasattr(reg, target_agent_name, task, data, w) ==
    IF IsStr(target_agent_name) /\ target_agent_name.v \in DOMAIN reg
    THEN IF HasHandler(reg[target_agent_name.v])
         THEN handle_request(reg[target_agent_name.v], task, data, w)
         ELSE Raise("AttributeError", <<>>)
    ELSE Ret(PyStr(<<"Error: Agent '">> \o Format(target_agent_name)
                   \o <<"' not found.">>), <<>>)

\* the body of AgentBridge.request(target_agent_name, task, data)
Lookup(reg, target_agent_name, task, data, w) ==
    IF target_agent_name.t \in {"list", "dict"} THEN Raise("TypeError", <<>>)
    ELSE IF IsStr(target_agent_name) /\ target_agent_name.v \in DOMAIN reg
    THEN IF HasHandler(reg[target_agent_name.v])
         THEN handle_request(reg[target_agent_name.v], task, data, w)
         ELSE Ret(PyStr(<<"Error: Agent '">> \o Format(target_agent_name)
                        \o <<"' cannot handle requests.">>), <<>>)
    ELSE Ret(PyStr(<<"Error: Agent '">> \o Format(target_agent_name)
                   \o <<"' not found.">>), <<>>)

\* AgentBridge.request(target_agent_name, task, data), as a recorded call
request(reg, target_agent_name, task, data, w) ==
    Recorded("request", NoInst, <<target_agent_name, task, data>>,
             Lookup(reg, target_agent_name, task, data, w))

-----------------------------------------------------------------------------
(* all_agents.py *)

\* o with the calls `before` put in front of its own
After(before, o) == [o EXCEPT !.events = before \o o.events]

\* `return await call_gemini_api(prompt, ...)`, the end of every agent
\* operation
Complete(prompt, image, g, before) == After(before, call_gemini_api(PyStr(prompt), image, g))

\* CropAgent.diagnose from `if not image_base64` on
Diagnosis(image_base64, lang, g) ==
    IF image_base64.exc # "none" THEN Raise(image_base64.exc, image_base64.events)
    ELSE IF Falsy(image_base64.ret)
         THEN Ret(W("Error: Could not read or encode the image file."), image_base64.events)
    ELSE Complete(<<"You are an expert agronomist ... in the following language: ">>
                  \o Format(lang) \o <<".">>, image_base64.ret, g, image_base64.events)

\* CropAgent.diagnose(image_path, lang)
diagnose(image_path, lang, f, g) ==
    Diagnosis(encode_image_to_base64(image_path, f), lang, g)

\* MarketAgent.get_market_price from `prompt = ...` on
MarketAdvice(commodity, market, lang, g, market_data, weather_report) ==
    LET ev == market_data.events \o weather_report.events
        records == Item(market_data.ret, <<"records">>)
    IN  IF weather_report.exc # "none" THEN Raise(weather_report.exc, ev)
        ELSE IF records.exc # "none" THEN Raise(records.exc, ev)
        ELSE Complete(<<"You are a market analyst ... market data for '">>
                      \o Format(commodity) \o <<"' in '">> \o Format(market)
                      \o <<"'. Also consider this weather forecast: ">>
                      \o Format(weather_report.ret) \o <<"Market Data: ">>
                      \o JsonDumps(records.ret, 2, 0)
                      \o <<"Provide a summary ... in the following language: ">>
                      \o Format(lang) \o <<".">>, PyNone, g, ev)

\* get_market_price asking for the forecast before it looks for "error"
MarketFetched_BridgeFirst(reg, commodity, market, lang, w, g, market_data) ==
    IF HasKey(market_data.ret, <<"error">>)
    THEN Ret(PyStr(<<"Sorry, I could not fetch market data. Reason: ">>
                   \o Format(market_data.ret.v[<<"error">>])),
             market_data.events
             \o request(reg, W("WeatherAgent"), W("get_simple_forecast"),
                        PyDict((<<"city">> :> market)), w).events)
    ELSE MarketAdvice(commodity, market, lang, g, market_data,
                      request(reg, W("WeatherAgent"), W("get_simple_forecast"),
                              PyDict((<<"city">> :> market)), w))

\* MarketAgent.get_market_price from `if "error" in market_data` on
MarketFetched(reg, commodity, market, lang, w, g, market_data) ==
    IF HasKey(market_data.ret, <<"error">>)
    THEN Ret(PyStr(<<"Sorry, I could not fetch market data. Reason: ">>
                   \o Format(market_data.ret.v[<<"error">>])), market_data.events)
    ELSE MarketAdvice(commodity, market, lang, g, market_data,
                      request(reg, W("WeatherAgent"), W("get_simple_forecast"),
                              PyDict((<<"city">> :> market)), w))

\* get_market_price with `if not commodity:` for its first test
get_market_price_OneTest(reg, commodity, market, lang, m, w, g) ==
    IF Falsy(commodity)
    THEN Ret(W("To get market prices, please tell me the crop and the market name (mandi)."), <<>>)
    ELSE MarketFetched(reg, commodity, market, lang, w, g,
                       get_market_data_from_gov_api(commodity, market, m))

\* MarketAgent.get_market_price(commodity, market, lang)
get_market_price(reg, commodity, market, lang, m, w, g) ==
    IF Falsy(commodity) \/ Falsy(market)
    THEN Ret(W("To get market prices, please tell me the crop and the market name (mandi)."), <<>>)
    ELSE MarketFetched(reg, commodity, market, lang, w, g,
                       get_market_data_from_gov_api(commodity, market, m))

\* SchemeAgent.find_schemes(query, lang)
find_schemes(query, lang, g) ==
    IF Falsy(query)
    THEN Ret(W("Please tell me what kind of scheme or subsidy you are looking for."), <<>>)
    ELSE Complete(<<"You are an expert on Indian government agricultural schemes. A farmer has asked for help with: '">>
                  \o Format(query) \o <<"'. ... in the following language: ">>
                  \o Format(lang) \o <<".">>, PyNone, g, <<>>)

\* WeatherAgent.get_weather from `if "error" in weather_data` on
WeatherReport(city, lang, g, weather_data) ==
    LET ev == weather_data.events
        main == Item(weather_data.ret, <<"main">>)
        weather == Item(weather_data.ret, <<"weather">>)
        first == First(weather.ret)
        desc == Item(first.ret, <<"description">>)
        name == Item(weather_data.ret, <<"name">>)
        temp == Item(main.ret, <<"temp">>)
        humidity == Item(main.ret, <<"humidity">>)
        report_data == PyDict((<<"city">> :> name.ret)
                              @@ (<<"condition">> :> PyStr(Title(desc.ret.v)))
                              @@ (<<"temperature_celsius">> :> temp.ret)
                              @@ (<<"humidity_percent">> :> humidity.ret))
    IN  IF HasKey(weather_data.ret, <<"error">>)
        THEN Ret(PyStr(<<"Could not get weather for '">> \o Format(city) \o <<"'. Reason: ">>
                       \o Format(weather_data.ret.v[<<"error">>])), ev)
        ELSE IF main.exc # "none" THEN Raise(main.exc, ev)
        ELSE IF weather.exc # "none" THEN Raise(weather.exc, ev)
        ELSE IF first.exc # "none" THEN Raise(first.exc, ev)
        ELSE IF desc.exc # "none" THEN Raise(desc.exc, ev)
        ELSE IF name.exc # "none" THEN Raise(name.exc, ev)
        ELSE IF ~IsStr(desc.ret) THEN Raise("AttributeError", ev)
        ELSE IF temp.exc # "none" THEN Raise(temp.exc, ev)
        ELSE IF humidity.exc # "none" THEN Raise(humidity.exc, ev)
        ELSE Complete(<<"You are a weather reporter for an Indian farmer. ... Weather Data: ">>
                      \o JsonDumps(report_data, 0, 0)
                      \o <<"Example format: ... in the following language: ">>
                      \o Format(lang) \o <<".">>, PyNone, g, ev)

\* WeatherAgent.get_weather(city, lang)
get_weather(city, lang, w, g) ==
    IF Falsy(city)
    THEN Ret(W("Please tell me the city or town for the weather forecast."), <<>>)
    ELSE WeatherReport(city, lang, g, get_weather_from_api(city, w))

\* OrganicAgent.get_tips(topic, lang)
get_tips(topic, lang, g) ==
    IF Falsy(topic)
    THEN Ret(W("Please tell me what organic farming topic you are interested in."), <<>>)
    ELSE Complete(<<"You are an expert in organic farming in India. A farmer wants to know about '">>
                  \o Format(topic) \o <<"'. ... in the following language: ">>
                  \o Format(lang) \o <<".">>, PyNone, g, <<>>)

\* SoilAgent.analyze_soil(query, lang)
analyze_soil(query, lang, g) ==
    IF Falsy(query)
    THEN Ret(W("Please describe your soil. For example, 'My soil is red and does not hold water well'."), <<>>)
    ELSE Complete(<<"You are an expert soil scientist for Indian agriculture. A farmer has described their soil: ">>
                  \o Format(query) \o <<". ... in the following language: ">>
                  \o Format(lang) \o <<".">>, PyNone, g, <<>>)

-----------------------------------------------------------------------------
(* app.py, voice_assistant.py: the router *)

UnclearDecision == PyDict((<<"agent">> :> W("Unclear")) @@ (<<"parameters">> :> EmptyDict))

RouterPrompt(frontend, query) ==
    IF frontend = "web"
    THEN <<"You are an intelligent router for an agricultural AI assistant called Kisan Mitra. ... The user's query is: ">>
         \o Format(query) \o <<" Here are the available agents ... Examples: ...">>
    ELSE <<"You are an intelligent router for an agricultural AI assistant. ... The user's query is: ">>
         \o Format(query) \o <<" Your response must be a JSON object. Examples: ...">>

\* response_text.strip().replace("```json", "").replace("```", "")
CleanResponse(response_text) == Remove(Remove(Strip(response_text), FenceJson), Fence)

\* route_query_to_agent without its except clause
RouterReturn_NoExcept(parsed_json, ev) ==
    IF parsed_json.ok THEN Ret(parsed_json.val, ev) ELSE Raise("JSONDecodeError", ev)

\* the try block of route_query_to_agent once json.loads has run
RouterReturn(parsed_json, ev) ==
    IF parsed_json.ok THEN Ret(parsed_json.val, ev) ELSE Ret(UnclearDecision, ev)

\* the try / except of route_query_to_agent; response_text is what the
\* completion call gave
RouterParse(response_text) ==
    IF ~IsStr(response_text.ret) THEN Ret(UnclearDecision, response_text.events)
    ELSE RouterReturn(JsonLoads(CleanResponse(response_text.ret.v)), response_text.events)

\* route_query_to_agent(query, lang), of app.py (frontend = "web") and of
\* voice_assistant.py (frontend = "voice")
route_query_to_agent(frontend, query, lang, g) ==
    RouterParse(call_gemini_api(PyStr(RouterPrompt(frontend, query)), PyNone, g))

-----------------------------------------------------------------------------
(* app.py, voice_assistant.py: start-up and the front ends *)

AgentClasses ==
    <<"CropAgent", "MarketAgent", "SchemeAgent", "WeatherAgent", "OrganicAgent", "SoilAgent">>

Agent(cls, id) == [cls |-> cls, id |-> id]

\* agents = {"CropAgent": CropAgent(bridge), ...}
agents == [name \in {<<AgentClasses[i]>> : i \in 1..Len(AgentClasses)} |-> Agent(name[1], 1)]

\* for name, agent in agents.items(): bridge.register_agent(name, agent)
RECURSIVE RegisterAll(_, _)
RegisterAll(reg, i) ==
    IF i > Len(AgentClasses) THEN reg
    ELSE RegisterAll(register_agent(reg, <<AgentClasses[i]>>, agents[<<AgentClasses[i]>>]), i + 1)

StartupRegistry == RegisterAll(BridgeInit, 1)

\* agents[agent_name] looked up without asking `in` first
InAgents_Subscript(agent_name) ==
    IF agent_name.t \in {"list", "dict"} THEN Raise("TypeError", <<>>)
    ELSE IF IsStr(agent_name) /\ agent_name.v \in DOMAIN agents THEN Ret(W("True"), <<>>)
    ELSE Raise("KeyError", <<>>)

\* `agent_name in agents`: a list or a dict cannot be hashed
InAgents(agent_name) ==
    IF agent_name.t \in {"list", "dict"} THEN Raise("TypeError", <<>>)
    ELSE IF IsStr(agent_name) /\ agent_name.v \in DOMAIN agents THEN Ret(W("True"), <<>>)
    ELSE Ret(W("False"), <<>>)

NoAgent == [op |-> "none", args |-> <<>>, out |-> NotCalled]
Invoked(name, args, o) == [op |-> name, args |-> args, out |-> o]

NotSure == W("I'm sorry, I'm not sure how to help with that. Could you please rephrase your question?")
WentWrong == W("Sorry, something went wrong.")

\* the if / elif chain of ask() that sits inside its try block
Dispatch(reg, agent_name, params, language, e) ==
    IF agent_name \in {<<"CropAgent">>} THEN NoAgent
    ELSE IF ~IsDict(params) THEN Invoked("none", <<>>, Raise("AttributeError", <<>>))
    ELSE CASE agent_name = <<"MarketAgent">> ->
                Invoked("get_market_price",
                        <<DictGet(params, <<"commodity">>, PyNone),
                          DictGet(params, <<"market">>, PyNone), language>>,
                        get_market_price(reg, DictGet(params, <<"commodity">>, PyNone),
                                         DictGet(params, <<"market">>, PyNone), language,
                                         e.market, e.weather, e.gemini))
          [] agent_name = <<"SchemeAgent">> ->
                Invoked("find_schemes", <<DictGet(params, <<"query">>, PyNone), language>>,
                        find_schemes(DictGet(params, <<"query">>, PyNone), language, e.gemini))
          [] agent_name = <<"WeatherAgent">> ->
                Invoked("get_weather", <<DictGet(params, <<"city">>, PyNone), language>>,
                        get_weather(DictGet(params, <<"city">>, PyNone), language,
                                    e.weather, e.gemini))
          [] agent_name = <<"OrganicAgent">> ->
                Invoked("get_tips", <<DictGet(params, <<"topic">>, PyNone), language>>,
                        get_tips(DictGet(params, <<"topic">>, PyNone), language, e.gemini))
          [] agent_name = <<"SoilAgent">> ->
                Invoked("analyze_soil", <<DictGet(params, <<"query">>, PyNone), language>>,
                        analyze_soil(DictGet(params, <<"query">>, PyNone), language, e.gemini))

\* what one front-end operation did: its outcome, the router call and the
\* agent operation inside it
Handled(o, r, a) == [out |-> o, router |-> r, agent |-> a]

\* ask(): the try / except around the agent call; d is what Dispatch did
Answer(routing_info, d) ==
    IF d.out.exc = "not called" THEN Handled(Ret(NotSure, routing_info.events), routing_info, d)
    ELSE IF d.out.exc # "none"
         THEN Handled(Ret(WentWrong, routing_info.events \o d.out.events), routing_info, d)
    ELSE Handled(Ret(d.out.ret, routing_info.events \o d.out.events), routing_info, d)

\* ask() from `result = "I'm sorry..."` on
Select(reg, routing_info, agent_name, params, language, e) ==
    IF StrEq(agent_name, <<"General">>)
    THEN Handled(After(routing_info.events, Get(params, <<"response">>, W("You're welcome!"))),
                 routing_info, NoAgent)
    ELSE IF InAgents(agent_name).exc # "none"
         THEN Handled(Raise(InAgents(agent_name).exc, routing_info.events), routing_info, NoAgent)
    ELSE IF InAgents(agent_name).ret = W("True")
         THEN Answer(routing_info, Dispatch(reg, agent_name.v, params, language, e))
    ELSE Handled(Ret(NotSure, routing_info.events), routing_info, NoAgent)

\* ask() from `agent_name = routing_info.get("agent")` on
Routed(reg, routing_info, language, e) ==
    IF ~IsDict(routing_info.ret)
    THEN Handled(Raise("AttributeError", routing_info.events), routing_info, NoAgent)
    ELSE Select(reg, routing_info, DictGet(routing_info.ret, <<"agent">>, PyNone),
                DictGet(routing_info.ret, <<"parameters">>, EmptyDict), language, e)

\* ask(), the text branch: req.body is request.json
AskText(reg, req, e) ==
    IF ~IsDict(req.body) THEN Handled(Raise("AttributeError", <<>>), NotCalled, NoAgent)
    ELSE Routed(reg,
                route_query_to_agent("web", DictGet(req.body, <<"query">>, PyNone),
                                     DictGet(req.body, <<"language">>, W("English")), e.router),
                DictGet(req.body, <<"language">>, W("English")), e)

\* `result = await target_agent.diagnose(...)` in ask() and in main():
\* nothing catches what it raises
Diagnosed(routing_info, d) ==
    Handled(After(routing_info.events, d.out), routing_info, d)

\* ask(), the photo branch: req.save is what photo.save(filename) does
AskPhoto(req, e) ==
    IF req.save # "ok" THEN Handled(Raise(req.save, <<>>), NotCalled, NoAgent)
    ELSE Diagnosed(NotCalled,
                   Invoked("diagnose", <<PyStr(<<"uploads", "/">> \o req.filename), req.language>>,
                           diagnose(PyStr(<<"uploads", "/">> \o req.filename), req.language,
                                    e.file, e.gemini)))

LowerWord(w) ==
    CASE w = "Stop" -> "stop"
      [] w = "Exit" -> "exit"
      [] w = "Quit" -> "quit"
      [] OTHER -> w

\* any(word in user_query.lower() for word in ["exit", "quit", "stop"])
WantsExit(user_query) ==
    \E i \in 1..Len(user_query) : LowerWord(user_query[i]) \in {"exit", "quit", "stop"}

\* main() from `result = ""` on
VoiceSelect(routing_info, agent_name, params, turn, lang_name, e) ==
    IF InAgents(agent_name).exc # "none"
    THEN Handled(Raise(InAgents(agent_name).exc, routing_info.events), routing_info, NoAgent)
    ELSE IF InAgents(agent_name).ret = W("True")
    THEN IF agent_name.v = <<"CropAgent">>
         THEN IF turn.exists
              THEN Diagnosed(routing_info,
                             Invoked("diagnose", <<turn.image_path, lang_name>>,
                                     diagnose(turn.image_path, lang_name, e.file, e.gemini)))
              ELSE Handled(Ret(W("Sorry, I could not find that file."), routing_info.events),
                           routing_info, NoAgent)
         ELSE Handled(Ret(PyStr(<<"Routing to ">> \o Format(agent_name)
                                \o <<" with parameters ">> \o Format(params)),
                          routing_info.events), routing_info, NoAgent)
    ELSE Handled(Ret(NotSure, routing_info.events), routing_info, NoAgent)

\* main() from `agent_name = routing_info.get("agent")` on
VoiceRouted(routing_info, turn, lang_name, e) ==
    IF ~IsDict(routing_info.ret)
    THEN Handled(Raise("AttributeError", routing_info.events), routing_info, NoAgent)
    ELSE VoiceSelect(routing_info, DictGet(routing_info.ret, <<"agent">>, PyNone),
                     DictGet(routing_info.ret, <<"parameters">>, EmptyDict), turn, lang_name, e)

\* one turn of the loop of main() of voice_assistant.py; turn.user_query is
\* what listen() returned, turn.image_path what the user typed when asked for
\* a path, turn.exists what os.path.exists says of it.  The result is what is
\* handed to speak().
VoiceTurn(turn, lang_name, e) ==
    IF Falsy(turn.user_query) THEN Handled(Ret(PyNone, <<>>), NotCalled, NoAgent)
    ELSE IF WantsExit(turn.user_query.v)
         THEN Handled(Ret(W("Goodbye!"), <<>>), NotCalled, NoAgent)
    ELSE VoiceRouted(route_query_to_agent("voice", turn.user_query, lang_name, e.router),
                     turn, lang_name, e)

-----------------------------------------------------------------------------
(* what the outside world may hand to one operation *)

MaxPad == 1
MaxFileLen == 2
MaxInst == 2

Languages == {W("English"), W("Hindi")}

\* a parameter value the model may extract; the last one holds a fence marker
ParamValues == {<<>>, <<"Agra">>, <<"a", Backtick, Backtick, Backtick, "b">>}

\* None stands for a key that is left out
MaybeParam == {PyNone} \cup {PyStr(x) : x \in ParamValues}

\* the mapping with the given keys, the ones bound to None left out
Mapping(keys, vals) ==
    PyDict([k \in {keys[i] : i \in {j \in 1..Len(keys) : vals[j] # PyNone}} |->
               vals[CHOOSE i \in 1..Len(keys) : keys[i] = k]])

ParamKeys(label) ==
    CASE label = "MarketAgent" -> <<<<"commodity">>, <<"market">>>>
      [] label = "WeatherAgent" -> <<<<"city">>>>
      [] label = "OrganicAgent" -> <<<<"topic">>>>
      [] label = "General" -> <<<<"response">>>>
      [] OTHER -> <<<<"query">>>>

\* "PestAgent" is a label outside the fixed set
Labels ==
    {AgentClasses[i] : i \in 1..Len(AgentClasses)} \cup {"General", "Unclear", "PestAgent"}

Decision(label, params) == PyDict((<<"agent">> :> W(label)) @@ (<<"parameters">> :> params))

\* the well-formed routing decisions
Decisions ==
    UNION {{Decision(label, Mapping(ParamKeys(label), vals)) :
                vals \in [1..Len(ParamKeys(label)) -> MaybeParam]} : label \in Labels}

\* valid JSON that is no routing decision
OddJson ==
    {PyList(<<>>), PyList(<<W("WeatherAgent")>>), PyInt(<<"4", "2">>), W("WeatherAgent"),
     PyNone, EmptyDict,
     PyDict((<<"agent">> :> W("WeatherAgent"))),
     PyDict((<<"parameters">> :> EmptyDict)),
     Decision("MarketAgent", PyNone), Decision("General", PyNone),
     Decision("SchemeAgent", PyList(<<>>)), Decision("PestAgent", PyNone),
     PyDict((<<"agent">> :> PyNone) @@ (<<"parameters">> :> EmptyDict)),
     PyDict((<<"agent">> :> PyList(<<W("WeatherAgent")>>)) @@ (<<"parameters">> :> EmptyDict))}

Pads == {Spaces(n) : n \in 0..MaxPad}

\* a JSON text, bare or inside code-fence markers, with blanks around it
Wrappings(text) ==
    {a \o text \o b : a \in Pads, b \in Pads}
    \cup {a \o FenceJson \o <<"\n">> \o text \o <<"\n">> \o Fence \o <<"\n">> : a \in Pads}
    \cup {Fence \o <<"\n">> \o text \o <<"\n">> \o Fence}

\* texts that are no JSON even after the clean-up
Malformed(text) ==
    {<<"Sure!", " ">> \o text,
     text \o <<" ", "Hope", " ", "this", " ", "helps.">>,
     SubSeq(text, 1, Len(text) - 1),
     <<Backtick>> \o text}

SampleDecision == Decision("WeatherAgent", EmptyDict)

RouterTexts ==
    UNION {Wrappings(JsonDumps(d, 0, 0)) : d \in Decisions}
    \cup {JsonDumps(d, 0, 0) : d \in OddJson}
    \cup Malformed(JsonDumps(SampleDecision, 0, 0))
    \cup Malformed(JsonDumps(PyDict((<<"agent">> :> W("WeatherAgent"))), 0, 0))
    \cup {<<>>, <<"I", " ", "cannot", " ", "help.">>}

GeminiReplies(texts) ==
    [kind : GeminiFailures, text : {<<>>}] \cup [kind : {"ok"}, text : texts]

\* the replies to choose from for a call that is made only if `made`
IfCalled(made, replies) == IF made THEN replies ELSE {CHOOSE x \in replies : TRUE}

AgentTexts == {<<"Sell", " ", "today.">>}

Record == PyDict((<<"min_price">> :> W("800")) @@ (<<"max_price">> :> W("1200"))
                 @@ (<<"modal_price">> :> W("1000")))

MarketReplies ==
    [kind : {"nokey", "http"}, data : {EmptyDict}]
    \cup [kind : {"ok"},
          data : {PyDict((<<"records">> :> PyList(<<Record>>))),
                  PyDict((<<"records">> :> PyList(<<>>))),
                  PyDict((<<"message">> :> W("Resource id doesn't exist."))),
                  PyDict((<<"error">> :> W("Key not authorised")))}]

Description == PyList(<<PyDict((<<"description">> :> PyStr(<<"light", " ", "rain">>)))>>)
Main == PyDict((<<"temp">> :> PyInt(<<"2", "4">>)) @@ (<<"humidity">> :> PyInt(<<"8", "1">>)))
Weather == (<<"name">> :> W("Pune")) @@ (<<"weather">> :> Description) @@ (<<"main">> :> Main)

\* f without key k
Without(f, k) == [x \in DOMAIN f \ {k} |-> f[x]]

WeatherReplies ==
    [kind : {"nokey", "http"}, data : {EmptyDict}]
    \cup [kind : {"ok"},
          data : {PyDict(Weather), PyDict(Without(Weather, <<"name">>)),
                  PyDict(Without(Weather, <<"main">>)), PyDict(Without(Weather, <<"weather">>)),
                  PyDict((<<"weather">> :> PyList(<<>>)) @@ Weather),
                  PyDict((<<"main">> :> EmptyDict) @@ Weather)}]

FileBytes == {0, 137, 255}

RECURSIVE SeqsUpTo(_, _)
SeqsUpTo(S, n) ==
    IF n = 0 THEN {<<>>}
    ELSE SeqsUpTo(S, n - 1) \cup {Append(q, x) : q \in SeqsUpTo(S, n - 1), x \in S}

FileReplies ==
    [open : {"ok"}, bytes : SeqsUpTo(FileBytes, MaxFileLen)]
    \cup [open : {"FileNotFoundError", "PermissionError", "IsADirectoryError"}, bytes : {<<>>}]

\* the replies tried where a front end is driven through the router: one of
\* each kind that takes the agent operations down a different path
FewGeminiReplies == {x \in GeminiReplies(AgentTexts) : x.kind \in {"nokey", "ok"}}
FewMarketReplies ==
    {x \in MarketReplies : x.kind = "nokey" \/ (x.kind = "ok" /\ ~HasKey(x.data, <<"error">>)
                                                  /\ x.data.v # (<<"records">> :> PyList(<<>>)))}
FewWeatherReplies ==
    {x \in WeatherReplies : x.kind = "nokey"
                             \/ (x.kind = "ok" /\ HasKey(x.data, <<"name">>)
                                 /\ HasKey(x.data, <<"weather">>) /\ x.data.v[<<"weather">>] = Description
                                 /\ (HasKey(x.data, <<"main">>) => x.data.v[<<"main">>] = Main))}
FewFileReplies ==
    {x \in FileReplies : x.open # "IsADirectoryError" /\ x.bytes \in {<<>>, <<137>>}}

Bodies ==
    {PyDict((<<"query">> :> W("price of potato in Agra"))),
     PyDict((<<"query">> :> W("price of potato in Agra")) @@ (<<"language">> :> W("Hindi"))),
     PyList(<<>>)}

Args == {PyNone, PyStr(<<>>), W("Agra")}

\* the names asked for at the bridge; nothing is ever registered as GhostAgent
\* by the application
Targets == {W("WeatherAgent"), W("MarketAgent"), W("GhostAgent")}

Tasks == {W("get_simple_forecast"), W("get_detailed_forecast")}

TaskData == {PyDict((<<"city">> :> W("Pune"))), EmptyDict, PyDict((<<"city">> :> PyStr(<<>>)))}

\* agent objects that may be registered: MaxInst of a class with a handler
\* and of a class without
Instances == {Agent(cls, id) : cls \in {"WeatherAgent", "MarketAgent"}, id \in 1..MaxInst}

\* the requests to /ask that may be in flight together
Requests == {"r1", "r2"}

\* the file names and the contents of the photos uploaded; the contents are
\* of one length, so that writing one over another replaces it
UploadNames == {<<"leaf.jpg">>, <<"rice.jpg">>}
UploadBytes == {<<137>>, <<255>>}

\* a request slot with no request in it
Free ==
    [pc |-> "free", filename |-> <<>>, bytes |-> <<>>, language |-> PyNone,
     gemini |-> [kind |-> "nokey", text |-> <<>>], result |-> NotCalled]

-----------------------------------------------------------------------------
(* the operations *)

\* the state once an operation has been carried out
Finish(name, args, h) ==
    /\ pc' = "done"
    /\ call' = [op |-> name, args |-> args]
    /\ router_out' = h.router
    /\ agent_out' = h.agent
    /\ out' = h.out
    /\ UNCHANGED <<registry, uploads, inflight>>

\* an operation called on its own
Alone(name, args, o) == Finish(name, args, Handled(o, NotCalled, Invoked(name, args, o)))

\* POST /ask with a JSON body
WebAskText ==
    /\ pc = "idle"
    /\ \E body \in Bodies, m \in FewMarketReplies, w \in FewWeatherReplies,
          g \in FewGeminiReplies :
         \E r \in IfCalled(IsDict(body), GeminiReplies(RouterTexts)) :
            Finish("ask", <<body>>,
                   AskText(registry, [body |-> body],
                           [router |-> r, market |-> m, weather |-> w, gemini |-> g]))

\* POST /ask with a photo
WebAskPhoto ==
    /\ pc = "idle"
    /\ \E language \in Languages, save \in {"ok", "IsADirectoryError"},
          f \in FileReplies, g \in GeminiReplies(AgentTexts) :
         Finish("ask", <<W("photo"), language>>,
                AskPhoto([filename |-> <<"leaf.jpg">>, language |-> language, save |-> save],
                         [file |-> f, gemini |-> g]))

\* one turn of the voice assistant
Voice ==
    /\ pc = "idle"
    /\ \E user_query \in {PyNone, W("price of potato in Agra"), PyStr(<<"please", " ", "Stop">>)},
          exists \in BOOLEAN, lang_name \in Languages, f \in FewFileReplies,
          g \in FewGeminiReplies :
         \E r \in IfCalled(~Falsy(user_query) /\ ~WantsExit(user_query.v),
                           GeminiReplies(RouterTexts)) :
            /\ exists => f.open # "FileNotFoundError"
            /\ Finish("main", <<user_query, lang_name>>,
                      VoiceTurn([user_query |-> user_query, image_path |-> W("leaf.jpg"),
                                 exists |-> exists], lang_name,
                                [router |-> r, file |-> f, gemini |-> g]))

CallDiagnose ==
    /\ pc = "idle"
    /\ \E lang \in Languages, f \in FileReplies, g \in GeminiReplies(AgentTexts) :
         Alone("diagnose", <<W("leaf.jpg"), lang>>, diagnose(W("leaf.jpg"), lang, f, g))

CallGetMarketPrice ==
    /\ pc = "idle"
    /\ \E commodity \in Args, market \in Args, lang \in Languages, m \in MarketReplies,
          w \in WeatherReplies, g \in GeminiReplies(AgentTexts) :
         Alone("get_market_price", <<commodity, market, lang>>,
               get_market_price(registry, commodity, market, lang, m, w, g))

CallFindSchemes ==
    /\ pc = "idle"
    /\ \E query \in Args, lang \in Languages, g \in GeminiReplies(AgentTexts) :
         Alone("find_schemes", <<query, lang>>, find_schemes(query, lang, g))

CallGetWeather ==
    /\ pc = "idle"
    /\ \E city \in Args, lang \in Languages, w \in WeatherReplies, g \in GeminiReplies(AgentTexts) :
         Alone("get_weather", <<city, lang>>, get_weather(city, lang, w, g))

CallGetTips ==
    /\ pc = "idle"
    /\ \E topic \in Args, lang \in Languages, g \in GeminiReplies(AgentTexts) :
         Alone("get_tips", <<topic, lang>>, get_tips(topic, lang, g))

CallAnalyzeSoil ==
    /\ pc = "idle"
    /\ \E query \in Args, lang \in Languages, g \in GeminiReplies(AgentTexts) :
         Alone("analyze_soil", <<query, lang>>, analyze_soil(query, lang, g))

\* WeatherAgent.handle_request called on the application's WeatherAgent
CallHandleRequest ==
    /\ pc = "idle"
    /\ \E task \in Tasks, data \in TaskData, w \in WeatherReplies :
         Alone("handle_request", <<task, data>>,
               handle_request(agents[<<"WeatherAgent">>], task, data, w))

\* AgentBridge.request
BridgeRequest ==
    /\ pc = "idle"
    /\ \E target \in Targets, task \in Tasks, data \in TaskData, w \in WeatherReplies :
         Finish("request", <<target, task, data>>,
                Handled(request(registry, target, task, data, w), NotCalled, NoAgent))

\* AgentBridge.register_agent
RegisterAgent ==
    /\ pc = "idle"
    /\ \E name \in Targets, agent_instance \in Instances :
         /\ registry' = register_agent(registry, name.v, agent_instance)
         /\ call' = [op |-> "register_agent", args |-> <<name, agent_instance>>]
    /\ pc' = "done"
    /\ router_out' = NotCalled
    /\ agent_out' = NoAgent
    /\ out' = Ret(PyNone, <<>>)
    /\ UNCHANGED <<uploads, inflight>>

\* the caller takes the result; nothing of the operation stays behind
Return ==
    /\ pc = "done"
    /\ pc' = "idle"
    /\ call' = [op |-> "none", args |-> <<>>]
    /\ router_out' = NotCalled
    /\ agent_out' = NoAgent
    /\ out' = NotCalled
    /\ UNCHANGED <<registry, uploads, inflight>>

Idle(reg) ==
    /\ pc = "idle"
    /\ call = [op |-> "none", args |-> <<>>]
    /\ registry = reg
    /\ router_out = NotCalled
    /\ agent_out = NoAgent
    /\ out = NotCalled
    /\ uploads = <<>>
    /\ inflight = [r \in Requests |-> Free]

\* the web application and the voice assistant after start-up
Init == Idle(StartupRegistry)

Next ==
    \/ WebAskText
    \/ WebAskPhoto
    \/ Voice
    \/ CallDiagnose
    \/ CallGetMarketPrice
    \/ CallFindSchemes
    \/ CallGetWeather
    \/ CallGetTips
    \/ CallAnalyzeSoil
    \/ CallHandleRequest
    \/ BridgeRequest
    \/ Return

Spec == Init /\ [][Next]_vars

\* a bridge on its own, from AgentBridge()
InitBridge == Idle(BridgeInit)

NextBridge ==
    \/ RegisterAgent
    \/ BridgeRequest
    \/ Return

SpecBridge == InitBridge /\ [][NextBridge]_vars

-----------------------------------------------------------------------------
(* /ask under the threaded server: each request runs ask() on its own, and
   the steps of ask() that touch the upload folder are steps of their own *)

\* the sequential bookkeeping stays as it is
Aside == UNCHANGED <<pc, call, registry, router_out, agent_out, out>>

\* the path a photo is saved to: os.path.join(UPLOAD_FOLDER, photo.filename)
SavedAs(filename) == <<"uploads", "/">> \o filename

\* a request with a photo arrives: `if 'photo' in request.files`
PhotoArrives ==
    /\ \E r \in Requests, filename \in UploadNames, bytes \in UploadBytes :
         /\ inflight[r].pc = "free"
         /\ inflight' = [inflight EXCEPT ![r] = [Free EXCEPT !.pc = "save",
                                                             !.filename = filename,
                                                             !.bytes = bytes,
                                                             !.language = W("English")]]
    /\ UNCHANGED uploads
    /\ Aside

\* photo.save(filename) opens the destination for writing, which empties it
PhotoOpen ==
    /\ \E r \in Requests :
         /\ inflight[r].pc = "save"
         /\ uploads' = (SavedAs(inflight[r].filename) :> <<>>) @@ uploads
         /\ inflight' = [inflight EXCEPT ![r].pc = "write"]
    /\ Aside

\* photo.save(filename) writes the uploaded bytes and closes the file
PhotoWrite ==
    /\ \E r \in Requests :
         /\ inflight[r].pc = "write"
         /\ uploads' = (SavedAs(inflight[r].filename) :> inflight[r].bytes) @@ uploads
         /\ inflight' = [inflight EXCEPT ![r].pc = "diagnose"]
    /\ Aside

\* `result = await target_agent.diagnose(filename, language)`: the file is
\* read as it is now
PhotoDiagnose ==
    /\ \E r \in Requests, g \in FewGeminiReplies :
         /\ inflight[r].pc = "diagnose"
         /\ inflight' =
              [inflight EXCEPT
                 ![r].pc = "done",
                 ![r].gemini = g,
                 ![r].result =
                    AskPhoto([filename |-> inflight[r].filename,
                              language |-> inflight[r].language, save |-> "ok"],
                             [file |-> [open |-> "ok",
                                        bytes |-> uploads[SavedAs(inflight[r].filename)]],
                              gemini |-> g]).out]
    /\ UNCHANGED uploads
    /\ Aside

\* a request with a JSON body is handled: it reads the registry and nothing
\* else that is shared
TextAsk ==
    /\ \E r \in Requests, g \in FewGeminiReplies :
         /\ inflight[r].pc = "free"
         /\ inflight' =
              [inflight EXCEPT
                 ![r].pc = "done",
                 ![r].gemini = g,
                 ![r].result =
                    AskText(registry, [body |-> PyDict((<<"query">> :> W("thank you")))],
                            [router |-> g, market |-> [kind |-> "nokey", data |-> EmptyDict],
                             weather |-> [kind |-> "nokey", data |-> EmptyDict],
                             gemini |-> g]).out]
    /\ UNCHANGED uploads
    /\ Aside

\* return jsonify({'response': result})
Respond ==
    /\ \E r \in Requests :
         /\ inflight[r].pc = "done"
         /\ inflight' = [inflight EXCEPT ![r] = Free]
    /\ UNCHANGED uploads
    /\ Aside

NextConcurrent ==
    \/ PhotoArrives
    \/ PhotoOpen
    \/ PhotoWrite
    \/ PhotoDiagnose
    \/ TextAsk
    \/ Respond

SpecConcurrent == Init /\ [][NextConcurrent]_vars

-----------------------------------------------------------------------------
(* the claims *)

RouterCalled == router_out.exc # "not called"

\* the text the completion call handed to the router
RouterText == router_out.events[1].res.v

\* the client's own failure strings
ClientErrors ==
    {<<"Error: GOOGLE_API_KEY not found in .env file. Please get a key from Google AI Studio.">>,
     <<"The AI model responded, but the content may have been blocked for safety reasons.">>,
     <<"API Request Error: Could not connect to Google AI. Please check your API key and ensure the API is enabled in your Google Cloud project.">>,
     <<"An unexpected error occurred during the API call.">>}

\* texts that are no JSON by the way they were put together
KnownBad ==
    ClientErrors \cup Malformed(JsonDumps(SampleDecision, 0, 0))
    \cup {<<>>, <<"I", " ", "cannot", " ", "help.">>}

Encoded == {d \in Decisions : RouterText \in Wrappings(JsonDumps(d, 0, 0))}

\* C2: whenever the router's text is the JSON text of a well-formed routing
\* decision, bare or wrapped in blanks and code-fence markers, the router
\* returns that very decision, every parameter value as it was written.
C2_RouterRoundTrip ==
    RouterCalled => \A d \in Encoded : router_out.exc = "none" /\ router_out.ret = d

\* C3: whatever the router returns is a mapping with the keys agent and
\* parameters; valid JSON of any other shape is answered with the Unclear
\* decision.
C3_RouterReturnsDecision ==
    RouterCalled
    => /\ router_out.exc = "none"
       /\ IsDict(router_out.ret)
       /\ HasKey(router_out.ret, <<"agent">>)
       /\ HasKey(router_out.ret, <<"parameters">>)

FrontEnd == call.op \in {"ask", "main"}

\* the label of the routing decision, when there is one and it is a string
HasLabel ==
    /\ RouterCalled
    /\ IsDict(router_out.ret)
    /\ HasKey(router_out.ret, <<"agent">>)
    /\ IsStr(router_out.ret.v[<<"agent">>])

Label == router_out.ret.v[<<"agent">>].v

Dispatched == {<<AgentClasses[i]>> : i \in 1..Len(AgentClasses)} \cup {<<"General">>}

\* C4: when the routing decision carries a label that is a string outside
\* the six agent names and General ("Unclear" is such a label), the front end
\* raises nothing, invokes no agent operation, makes no call beyond the
\* router's, and answers "I'm sorry, I'm not sure how to help with that...".
C4_UnknownLabelMisses ==
    FrontEnd /\ HasLabel /\ Label \notin Dispatched
    => /\ out.exc = "none"
       /\ out.ret = NotSure
       /\ agent_out = NoAgent
       /\ out.events = router_out.events

C4_Witness ==
    /\ call.op = "ask"
    /\ HasLabel
    /\ Label = <<"PestAgent">>
    /\ out.ret = NotSure

Requested == call.op = "request"
Target == call.args[1]

\* C5: a bridge request for a name that is not registered returns the string
\* "Error: Agent '<name>' not found.", one for a registered agent without
\* handle_request returns "Error: Agent '<name>' cannot handle requests.";
\* neither raises nor invokes a handler, and a request leaves the registry
\* as it was.
C5_State ==
    Requested
    => /\ Target.v \notin DOMAIN registry
          => /\ out.exc = "none"
             /\ out.ret = PyStr(<<"Error: Agent '">> \o Target.v \o <<"' not found.">>)
             /\ Contains(out.ret.v, Target.v)
             /\ Count(out.events, "handle_request") = 0
       /\ Target.v \in DOMAIN registry /\ ~HasHandler(registry[Target.v])
          => /\ out.exc = "none"
             /\ out.ret = PyStr(<<"Error: Agent '">> \o Target.v
                                \o <<"' cannot handle requests.">>)
             /\ Count(out.events, "handle_request") = 0

C5_BridgeRefuses == [](C5_State) /\ [][call'.op = "request" => registry' = registry]_vars

C5_Witness ==
    /\ Requested
    /\ Target.v \in DOMAIN registry
    /\ ~HasHandler(registry[Target.v])
    /\ Contains(out.ret.v, <<"' cannot handle requests.">>)

\* the calls of handle_request inside the last operation
HandlerCalls == {i \in 1..Len(out.events) : out.events[i].api = "handle_request"}

C6_State ==
    /\ Requested /\ Target.v \in DOMAIN registry /\ HasHandler(registry[Target.v])
       => /\ Cardinality(HandlerCalls) = 1
          /\ \A i \in HandlerCalls :
                /\ out.events[i].inst = registry[Target.v]
                /\ out.events[i].args = <<call.args[2], call.args[3]>>
                /\ out.events[i].res = Result(out)
    /\ call.op = "register_agent" => /\ call.args[1].v \in DOMAIN registry
                                     /\ registry[call.args[1].v] = call.args[2]

C6_Step ==
    /\ DOMAIN registry \subseteq DOMAIN registry'
    /\ registry' # registry
       => /\ call'.op = "register_agent"
          /\ \A n \in DOMAIN registry \ {call'.args[1].v} : registry'[n] = registry[n]

\* C6: a bridge request for a registered agent with a handler calls
\* handle_request exactly once, on the agent that the last register_agent for
\* that name put there, with the task and the data of the request, and
\* returns what that call returned; register_agent binds its name to its
\* agent, leaves every other entry alone, and nothing ever removes an entry.
C6_BridgeDelivers == [](C6_State) /\ [][C6_Step]_vars

C6_Witness ==
    /\ Requested
    /\ Target = W("MarketAgent")
    /\ Target.v \in DOMAIN registry
    /\ registry[Target.v] = Agent("WeatherAgent", 2)
    /\ out.exc = "none"
    /\ Contains(out.ret.v, <<"Forecast for ">>)

Guidance(o, text) == o = Ret(W(text), <<>>)

\* C7: a text agent operation that is given None or "" for a required
\* parameter returns its fixed guidance string and has called no data
\* client, no bridge and no completion client.
C7_GuidanceWithoutCalls ==
    /\ agent_out.op = "get_market_price" /\ (Falsy(agent_out.args[1]) \/ Falsy(agent_out.args[2]))
       => Guidance(agent_out.out,
                   "To get market prices, please tell me the crop and the market name (mandi).")
    /\ agent_out.op = "find_schemes" /\ Falsy(agent_out.args[1])
       => Guidance(agent_out.out,
                   "Please tell me what kind of scheme or subsidy you are looking for.")
    /\ agent_out.op = "get_weather" /\ Falsy(agent_out.args[1])
       => Guidance(agent_out.out, "Please tell me the city or town for the weather forecast.")
    /\ agent_out.op = "get_tips" /\ Falsy(agent_out.args[1])
       => Guidance(agent_out.out,
                   "Please tell me what organic farming topic you are interested in.")
    /\ agent_out.op = "analyze_soil" /\ Falsy(agent_out.args[1])
       => Guidance(agent_out.out,
                   "Please describe your soil. For example, 'My soil is red and does not hold water well'.")

C7_Witness ==
    /\ call.op = "ask"
    /\ agent_out.op = "get_market_price"
    /\ ~Falsy(agent_out.args[1])
    /\ agent_out.args[2] = PyNone
    /\ agent_out.out.events = <<>>

\* the encoding step of the last diagnose, when it did not yield an image
EncodingFailed ==
    /\ agent_out.op = "diagnose"
    /\ agent_out.out.events # <<>>
    /\ agent_out.out.events[1].api = "encode_image_to_base64"
    /\ agent_out.out.events[1].res.t \in {"None", "exception"}

\* C8: whenever the encoding step of diagnose fails because the file cannot
\* be read, diagnose returns "Error: Could not read or encode the image
\* file.", raises nothing and makes no completion call.
C8_UnreadableImage ==
    EncodingFailed
    => /\ agent_out.out.exc = "none"
       /\ agent_out.out.ret = W("Error: Could not read or encode the image file.")
       /\ Count(agent_out.out.events, "call_gemini_api") = 0

\* C9: whatever the external clients answer, no agent operation, no bridge
\* request, no handle_request and no router call raises.
C9_NothingRaises ==
    /\ agent_out.op # "none" => agent_out.out.exc = "none"
    /\ router_out.exc \in {"none", "not called"}
    /\ call.op \in {"request", "handle_request"} => out.exc = "none"

\* C10: a request to /ask never fails: whatever is raised while it is
\* handled is replaced by a response.
C10_AskNeverFails == call.op = "ask" => out.exc = "none"

HandlerRan == call.op = "handle_request"

\* C11: handle_request with task "get_simple_forecast" and a missing or
\* empty city returns "No city provided.", with any other task returns
\* "Unknown task.", in both cases without a weather data call; on every path,
\* called directly or through the bridge, it makes at most one weather data
\* call and no completion call.
C11_HandlerDispatch ==
    /\ /\ HandlerRan
       /\ StrEq(call.args[1], <<"get_simple_forecast">>)
       /\ IsDict(call.args[2])
       /\ Falsy(DictGet(call.args[2], <<"city">>, PyNone))
       => /\ out.exc = "none"
          /\ out.ret = W("No city provided.")
          /\ Count(out.events, "get_weather_from_api") = 0
    /\ HandlerRan /\ ~StrEq(call.args[1], <<"get_simple_forecast">>)
       => /\ out.exc = "none"
          /\ out.ret = W("Unknown task.")
          /\ Count(out.events, "get_weather_from_api") = 0
    /\ call.op \in {"handle_request", "request"}
       => /\ Count(out.events, "get_weather_from_api") <= 1
          /\ Count(out.events, "call_gemini_api") = 0
    /\ agent_out.op = "get_market_price"
       => Count(agent_out.out.events, "get_weather_from_api") <= 1

C11_Witness ==
    /\ HandlerRan
    /\ call.args = <<W("get_simple_forecast"), PyDict((<<"city">> :> PyStr(<<>>)))>>
    /\ out.ret = W("No city provided.")

MarketRan == agent_out.op = "get_market_price"

\* the calls the last get_market_price made, in order
MarketCalls == agent_out.out.events

\* get_market_price was given a crop and a market and the market data client
\* answered with records
RecordsFetched ==
    /\ MarketRan
    /\ ~Falsy(agent_out.args[1]) /\ ~Falsy(agent_out.args[2])
    /\ MarketCalls # <<>>
    /\ MarketCalls[1].api = "get_market_data_from_gov_api"
    /\ HasKey(MarketCalls[1].res, <<"records">>)

\* market data fetch, then one bridge request for the forecast of the market,
\* then one completion call whose prompt holds the records and the string the
\* bridge returned, and whose text is the result
MarketSequence ==
    /\ Len(MarketCalls) >= 3
    /\ Count(MarketCalls, "get_market_data_from_gov_api") = 1
    /\ Count(MarketCalls, "request") = 1
    /\ Count(MarketCalls, "call_gemini_api") = 1
    /\ MarketCalls[2].api = "request"
    /\ MarketCalls[2].args = <<W("WeatherAgent"), W("get_simple_forecast"),
                               PyDict((<<"city">> :> agent_out.args[2]))>>
    /\ MarketCalls[Len(MarketCalls)].api = "call_gemini_api"
    /\ IsStr(MarketCalls[2].res)
    /\ Contains(MarketCalls[Len(MarketCalls)].args[1].v, MarketCalls[2].res.v)
    /\ Contains(MarketCalls[Len(MarketCalls)].args[1].v,
                JsonDumps(MarketCalls[1].res.v[<<"records">>], 2, 0))
    /\ MarketCalls[1].res.v[<<"records">>] = PyList(<<Record>>)
       => Contains(MarketCalls[Len(MarketCalls)].args[1].v, <<"1000">>)
    /\ agent_out.out.exc = "none"
    /\ agent_out.out.ret = MarketCalls[Len(MarketCalls)].res

\* C12: when get_market_price is given a crop and a market and the market
\* data client returns records, it fetches the market data, then makes one
\* bridge request (WeatherAgent, get_simple_forecast, city = market), then
\* one completion call; the prompt holds the records and the string the
\* bridge returned; the completion text is returned as it is.
C12_MarketSequence == RecordsFetched => MarketSequence

\* the operation of each agent that answers a query
OperationOf(label) ==
    CASE label = <<"CropAgent">> -> "diagnose"
      [] label = <<"MarketAgent">> -> "get_market_price"
      [] label = <<"SchemeAgent">> -> "find_schemes"
      [] label = <<"WeatherAgent">> -> "get_weather"
      [] label = <<"OrganicAgent">> -> "get_tips"
      [] label = <<"SoilAgent">> -> "analyze_soil"

\* the routing decision names one of the six agents and carries a mapping of
\* parameters
NamesAgent ==
    /\ FrontEnd
    /\ HasLabel
    /\ Label \in DOMAIN agents
    /\ IsDict(DictGet(router_out.ret, <<"parameters">>, EmptyDict))

\* the language the user of the front end selected
Selected ==
    IF call.op = "main" THEN call.args[2]
    ELSE DictGet(call.args[1], <<"language">>, W("English"))

\* C13: whenever the router's decision names one of the six agents, the
\* front end, web or voice, calls that agent's operation with the selected
\* language and what it answers is the string the operation returned.
C13_FrontEndsDispatch ==
    NamesAgent
    => /\ agent_out.op = OperationOf(Label)
       /\ agent_out.args[Len(agent_out.args)] = Selected
       /\ agent_out.out.exc = "none" => out = Ret(agent_out.out.ret, out.events)

\* get_market_price was given a crop and a market
PriceQuery == MarketRan /\ ~Falsy(agent_out.args[1]) /\ ~Falsy(agent_out.args[2])

\* the bridge requests the last get_market_price made
WeatherRequests == {i \in 1..Len(MarketCalls) : MarketCalls[i].api = "request"}

\* C14 as stated: every get_market_price with a crop and a market makes
\* exactly one bridge request to WeatherAgent, whatever the market data
\* client returned.
C14_AlwaysAsksWeather ==
    PriceQuery
    => /\ Cardinality(WeatherRequests) = 1
       /\ \A i \in WeatherRequests : MarketCalls[i].args[1] = W("WeatherAgent")

\* C14, amended: every get_market_price with a crop and a market fetches the
\* market data first; when the payload has an "error" key it makes no bridge
\* request at all, otherwise exactly one, to WeatherAgent, right after the
\* fetch.
C14_AsksWeatherUnlessError ==
    PriceQuery
    => /\ MarketCalls # <<>>
       /\ MarketCalls[1].api = "get_market_data_from_gov_api"
       /\ IF HasKey(MarketCalls[1].res, <<"error">>)
          THEN WeatherRequests = {}
          ELSE /\ WeatherRequests = {2}
               /\ MarketCalls[2].args[1] = W("WeatherAgent")

C14_Witness ==
    /\ PriceQuery
    /\ HasKey(MarketCalls[1].res, <<"error">>)
    /\ WeatherRequests = {}
    /\ IsStr(agent_out.out.ret)
    /\ Contains(agent_out.out.ret.v, <<"Sorry, I could not fetch market data. Reason: ">>)

\* what ask() answers to a photo when no other request is being handled
PhotoAlone(q) ==
    AskPhoto([filename |-> q.filename, language |-> q.language, save |-> "ok"],
             [file |-> [open |-> "ok", bytes |-> q.bytes], gemini |-> q.gemini]).out

\* C15: with any number of requests to /ask in flight, the response to a
\* photo depends on that request's own upload and on what the completion
\* client answered to it, never on another request: it is the response the
\* request would get if it were handled alone.
C15_RequestsDoNotInterfere ==
    \A r \in Requests :
        inflight[r].pc = "done" /\ inflight[r].filename # <<>>
        => inflight[r].result = PhotoAlone(inflight[r])

====
